---- MODULE Spec2Model ----
(***************************************************************************)
(* ColorDash: the Game component (levels revision, src/components/Game.js  *)
(* lines 1-411) and the App component that hosts it (src/unnamed/part_000  *)
(* lines 1-120) as a state machine.                                        *)
(*                                                                         *)
(* Units are pixels; every coordinate the model draws is an integer.       *)
(* A handler is one action: the React state updates it queues, the render  *)
(* that follows and the effects that render re-runs (clean-ups first, then *)
(* set-ups, in declaration order) are part of the action.  A state updater *)
(* runs once per call, with the side effects the code gives it.            *)
(*                                                                         *)
(* Left out because no control flow reads them: an obstacle's id and       *)
(* color string, a particle's id, x, vx, size and color, haptics and the   *)
(* shake animation.  A particle's y and vy are left out    *)
(* too: the filter p.y > -20 (line 251) cannot fail before the opacity     *)
(* reaches 0 (34 updates) once SCREEN_HEIGHT >= 156, as the particle       *)
(* starts at y >= SCREEN_HEIGHT - 85 and rises less than 91 in 34 updates. *)
(***************************************************************************)
EXTENDS Integers, Sequences, FiniteSets, TLC

VARIABLES
    SCREEN_WIDTH,           \* Dimensions.get('window').width
    SCREEN_HEIGHT,          \* Dimensions.get('window').height
    playerPos,              \* shared value {x, y}
    playerColor,            \* shared value, index into COLORS
    score,                  \* score.current
    currentScore,           \* React state
    isGameOver,             \* React state
    pendingGameOverScore,   \* React state, NoScore for null
    obstacles,              \* React state, list of obstacles
    particles,              \* React state, list of particles
    gameLoopRef,            \* gameLoopRef.current, a timer id or Null
    obstacleSpeed,          \* obstacleSpeed.current
    level,                  \* React state
    spawnIntervalRef,       \* spawnIntervalRef.current, a timer id or Null
    obstacleSizeRef,        \* obstacleSizeRef.current
    isPaused,               \* React state
    showLevelComplete,      \* React state
    timers,                 \* the active setInterval timers, each with the values its callback closed over
    reported,               \* the arguments of the onGameOver calls of the current run, in order
    probe,                  \* the input, and the result, of the operation examined on its own
    gameStarted,            \* App: React state
    highScore,              \* App: React state
    backgroundMusic,        \* App: backgroundMusic.current, "null" or "sound"
    musicTask,              \* App: where maybeStart stands
    musicPlaying,           \* whether the background sound is playing
    storedHighScore,        \* the string stored under HIGH_SCORE, NoItem for none
    highScoreRead,          \* App: "pending" while getItem has not settled
    pendingWrites,          \* the setItem calls that have not settled, in order
    pointSound,             \* Game: the point sound, "loading", "loaded" or "unavailable"
    pointReplays            \* the replayAsync calls that have not settled

vars == <<SCREEN_WIDTH, SCREEN_HEIGHT, playerPos, playerColor, score, currentScore,
          isGameOver, pendingGameOverScore, obstacles, particles, gameLoopRef,
          obstacleSpeed, level, spawnIntervalRef, obstacleSizeRef, isPaused,
          showLevelComplete, timers, reported, probe,
          gameStarted, highScore, backgroundMusic, musicTask, musicPlaying,
          storedHighScore, highScoreRead, pendingWrites, pointSound, pointReplays>>

deviceVars == <<SCREEN_WIDTH, SCREEN_HEIGHT, probe>>

gameVars == <<score, currentScore, isGameOver, pendingGameOverScore, obstacles, particles,
              gameLoopRef, obstacleSpeed, level, spawnIntervalRef, obstacleSizeRef,
              isPaused, showLevelComplete, timers, reported>>

appVars == <<gameStarted, highScore, backgroundMusic, musicTask, musicPlaying,
             storedHighScore, highScoreRead, pendingWrites, pointSound, pointReplays>>

-----------------------------------------------------------------------------
(* Program constants *)

PLAYER_SIZE == 50
OBSTACLE_WIDTH == 60
NumColors == 4
levelThreshold == 10
BurstSize == 14

Null == 0
NoScore == -1
\* getItem's null
NoItem == <<>>

-----------------------------------------------------------------------------
(* Bounds of the model *)

\* half of the window width of the modelled device
HalfWidth == 50
\* window height of the modelled device
WindowHeight == 160
\* the spawn timers add no obstacle while the list holds this many
MaxObstacles == 2
\* the spawn timers add no obstacle once the score has reached this
MaxScore == 11
\* the spawn timers add no obstacle while the particles alive, and those the obstacles
\* on screen may still release, number more than this
MaxParticles == 14
\* with the App, the spawn timers add no obstacle once the score has reached this
AppMaxScore == 3
\* with the App, the spawn timers add no obstacle while this many replays are pending
MaxReplays == 1
\* the speed on its own is followed up to this score
SpeedMaxScore == 80
\* half of the window width of the device on which obstacles can fall past the player
FallHalfWidth == 60
\* on that device the spawn timers add no obstacle once the score has reached this
FallMaxScore == 2

\* the high scores an earlier session may have left in the store
StoredScores == {1, 12}

\* colorIndex values drawn for a new obstacle (Math.random at line 93)
SpawnColors == {0, 1}
\* x values drawn for a new obstacle of the given size (Math.random at line 95)
SpawnXs(size) == {SCREEN_WIDTH - size - 1}
\* absoluteX values of the drag events
DragXs == {0, PLAYER_SIZE \div 2, SCREEN_WIDTH}
\* the lives drawn for the particles of one burst (Math.random at line 199)
BurstLives == { [i \in 1..BurstSize |-> IF i = BurstSize THEN 49 ELSE 29 + i] }
\* horizontal velocities, in pixels, and rotation speeds and angles, in tenths of a
\* degree, drawn for a new obstacle (Math.random at lines 99, 102, 104)
SpawnVxs == {-2, 1}
SpawnRotateSpeeds == {-8, 19}
SpawnAngles == {0, 900}

-----------------------------------------------------------------------------
(* Helpers *)

Min(a, b) == IF a < b THEN a ELSE b
Max(a, b) == IF a > b THEN a ELSE b

\* JavaScript's %: the result has the sign of the dividend
JsRem(a, b) == IF a >= 0 THEN a % b ELSE -((-a) % b)

InitialPlayerPos == [x |-> (SCREEN_WIDTH \div 2) - (PLAYER_SIZE \div 2), y |-> SCREEN_HEIGHT - 100]

-----------------------------------------------------------------------------
(* Timers and effects *)

ClearInterval(ts, id) == {t \in ts : t.id # id}

\* a timer id in use neither by an active timer nor by a ref
NewTimerId(ts, r1, r2) ==
    LET used == {t.id : t \in ts} \cup {r1, r2}
    IN  CHOOSE n \in 1..(Cardinality(used) + 1) :
            /\ n \notin used
            /\ \A m \in 1..(n - 1) : m \in used

\* e is [timers, spawnRef, loopRef]

\* the game loop effect's set-up without the early return of line 123
GameLoopEffectAlways(e, gameOver, lvl, paused) ==
    LET t1 == IF e.spawnRef # Null THEN ClearInterval(e.timers, e.spawnRef) ELSE e.timers
        a  == NewTimerId(t1, e.spawnRef, e.loopRef)
        t2 == t1 \cup {[id |-> a, kind |-> "spawnGuarded", paused |-> paused, level |-> lvl]}
        f  == NewTimerId(t2, a, e.loopRef)
        t3 == t2 \cup {[id |-> f, kind |-> "frame", paused |-> paused, level |-> lvl]}
    IN  [timers |-> t3, spawnRef |-> a, loopRef |-> f]

\* the game loop effect's set-up, lines 122-257
GameLoopEffect(e, gameOver, lvl, paused) ==
    IF gameOver THEN e
    ELSE
      LET \* startSpawning, lines 126-136
          t1 == IF e.spawnRef # Null THEN ClearInterval(e.timers, e.spawnRef) ELSE e.timers
          a  == NewTimerId(t1, e.spawnRef, e.loopRef)
          t2 == t1 \cup {[id |-> a, kind |-> "spawnGuarded", paused |-> paused, level |-> lvl]}
          \* line 139
          f  == NewTimerId(t2, a, e.loopRef)
          t3 == t2 \cup {[id |-> f, kind |-> "frame", paused |-> paused, level |-> lvl]}
      IN  [timers |-> t3, spawnRef |-> a, loopRef |-> f]

\* the game loop effect's clean-up, lines 259-262
GameLoopCleanup(e) ==
    LET t1 == IF e.spawnRef # Null THEN ClearInterval(e.timers, e.spawnRef) ELSE e.timers
    IN  [e EXCEPT !.timers = ClearInterval(t1, e.loopRef)]

\* the spawner restart effect's set-up leaving the running spawn timer alone
SpawnerEffectKeepsOld(e, gameOver, lvl, paused) ==
    IF gameOver THEN e
    ELSE
      LET b  == NewTimerId(e.timers, e.spawnRef, e.loopRef)
          t2 == e.timers \cup {[id |-> b, kind |-> "spawn", paused |-> paused, level |-> lvl]}
      IN  [timers |-> t2, spawnRef |-> b, loopRef |-> e.loopRef]

\* the spawner restart effect's set-up, lines 266-276
SpawnerEffect(e, gameOver, lvl, paused) ==
    IF gameOver THEN e
    ELSE
      LET t1 == IF e.spawnRef # Null THEN ClearInterval(e.timers, e.spawnRef) ELSE e.timers
          r1 == Null
          b  == NewTimerId(t1, r1, e.loopRef)
          t2 == t1 \cup {[id |-> b, kind |-> "spawn", paused |-> paused, level |-> lvl]}
      IN  [timers |-> t2, spawnRef |-> b, loopRef |-> e.loopRef]

\* the spawner restart effect's clean-up, lines 277-279
SpawnerCleanup(e) ==
    IF e.spawnRef # Null THEN [e EXCEPT !.timers = ClearInterval(e.timers, e.spawnRef)] ELSE e

\* The effects of one commit: both effects depend on [isGameOver, level, isPaused]
\* (generateObstacle never changes) and re-run when one of them changed.
RunEffects(e, old, new) ==
    IF old = new THEN e
    ELSE SpawnerEffect(
             GameLoopEffect(SpawnerCleanup(GameLoopCleanup(e)),
                            new.isGameOver, new.level, new.isPaused),
             new.isGameOver, new.level, new.isPaused)

Deps(go, lvl, paused) == [isGameOver |-> go, level |-> lvl, isPaused |-> paused]

-----------------------------------------------------------------------------
(* generateObstacle, lines 92-119.  useCallback has no dependencies, so the  *)
(* function of the first render is used for ever: lvl is the level that      *)
(* render saw.                                                             *)

generateObstacleLevel == 1

generateObstacle(lvl, colorIndex, x, vxIn, angleIn, rotIn, size) ==
    [ x |-> x,
      y |-> -size,
      colorIndex |-> colorIndex,
      width |-> size,
      height |-> size,
      vx |-> IF lvl >= 3 THEN vxIn ELSE 0,
      angle |-> IF lvl >= 2 THEN angleIn ELSE 0,
      rotateSpeed |-> IF lvl >= 2 THEN rotIn ELSE 0 ]

-----------------------------------------------------------------------------
(* The frame update, lines 139-257 *)

\* an obstacle that turns round at an edge without being put back inside
MoveObstacleNoClamp(obs, lvl, speed) ==
    LET movedX == obs.x + obs.vx
        horizontal == lvl >= 3 /\ obs.vx # 0
        bounce == horizontal /\ (movedX <= 0 \/ movedX + obs.width >= SCREEN_WIDTH)
    IN  [obs EXCEPT !.y = obs.y + speed,
                    !.x = IF horizontal THEN movedX ELSE obs.x,
                    !.vx = IF bounce THEN -obs.vx ELSE obs.vx]

\* the speed taken per millisecond of the 16 ms frame interval
MoveObstacleByInterval(obs, lvl, speed) ==
    [obs EXCEPT !.y = obs.y + speed * 16]

\* lines 143-163: one obstacle moved, lvl being the level the timer's callback closed over
MoveObstacle(obs, lvl, speed) ==
    LET newY == obs.y + speed
        movedX == obs.x + obs.vx
        horizontal == lvl >= 3 /\ obs.vx # 0
        bounce == horizontal /\ (movedX <= 0 \/ movedX + obs.width >= SCREEN_WIDTH)
        newX == IF ~horizontal THEN obs.x
                ELSE IF bounce THEN Max(0, Min(SCREEN_WIDTH - obs.width, movedX))
                ELSE movedX
        newVx == IF bounce THEN -obs.vx ELSE obs.vx
        newAngle == IF lvl >= 2 /\ obs.rotateSpeed # 0
                    THEN JsRem(obs.angle + obs.rotateSpeed, 3600)
                    ELSE obs.angle
    IN  [obs EXCEPT !.y = newY, !.x = newX, !.vx = newVx, !.angle = newAngle]

\* the overlap test with touching rectangles counted as apart
CollisionStrict(pos, obs) ==
    ~ ( \/ pos.x >= obs.x + obs.width
        \/ pos.x + PLAYER_SIZE <= obs.x
        \/ pos.y >= obs.y + obs.height
        \/ pos.y + PLAYER_SIZE <= obs.y )

\* lines 165-178
Collision(pos, obs) ==
    ~ ( \/ pos.x > obs.x + obs.width
        \/ pos.x + PLAYER_SIZE < obs.x
        \/ pos.y > obs.y + obs.height
        \/ pos.y + PLAYER_SIZE < obs.y )

\* lines 193-203: the particles of one burst
Burst(lives) == [i \in 1..BurstSize |-> [life |-> lives[i], opacity |-> 100]]

\* the level threshold confused with the speed ramp's step
LevelCompleteEveryFive(sc) == sc > 0 /\ sc % 5 = 0

\* lines 212-217
LevelComplete(sc) == sc > 0 /\ sc % levelThreshold = 0

\* the match branch counting from the rendered score instead of score.current
MatchBranchStale(a, lives) ==
    LET sc == currentScore + 1
    IN  [a EXCEPT !.score = sc,
                  !.currentScore = sc,
                  !.particles = a.particles \o Burst(lives),
                  !.isPaused = IF LevelComplete(sc) THEN TRUE ELSE a.isPaused,
                  !.showLevelComplete = IF LevelComplete(sc) THEN TRUE ELSE a.showLevelComplete]

\* lines 181-218: the match branch; a is the frame's state so far
MatchBranch(a, lives) ==
    LET sc == a.score + 1
    IN  [a EXCEPT !.score = sc,
                  !.currentScore = sc,
                  !.particles = a.particles \o Burst(lives),
                  !.isPaused = IF LevelComplete(sc) THEN TRUE ELSE a.isPaused,
                  !.showLevelComplete = IF LevelComplete(sc) THEN TRUE ELSE a.showLevelComplete]

\* lines 219-228: the mismatch branch
MismatchBranch(a) ==
    LET t1 == ClearInterval(a.timers, gameLoopRef)
        t2 == IF spawnIntervalRef # Null THEN ClearInterval(t1, spawnIntervalRef) ELSE t1
    IN  [a EXCEPT !.timers = t2,
                  !.isGameOver = TRUE,
                  !.pendingGameOverScore = a.score]

\* an obstacle kept while its top edge is on the bottom edge of the window
OnScreenOrAtEdge(obs) == obs.y <= SCREEN_HEIGHT

\* line 232
OnScreen(obs) == obs.y < SCREEN_HEIGHT

\* lines 164-233: the filter callback on one moved obstacle
FilterStep(a, obs, lives) ==
    IF Collision(playerPos, obs)
    THEN IF playerColor = obs.colorIndex
         THEN MatchBranch(a, lives)
         ELSE MismatchBranch(a)
    ELSE IF OnScreen(obs)
         THEN [a EXCEPT !.kept = Append(a.kept, obs)]
         ELSE a

RECURSIVE FilterObstacles(_, _, _, _)
FilterObstacles(a, moved, i, lives) ==
    IF i > Len(moved) THEN a
    ELSE FilterObstacles(FilterStep(a, moved[i], lives[i]), moved, i + 1, lives)

\* the ramp without its cap
RampSpeedUncapped(sc, speed) ==
    IF sc > 0 /\ sc % 5 = 0 THEN 5 + (sc \div 4) ELSE speed

\* lines 235-238
RampSpeed(sc, speed) ==
    IF sc > 0 /\ sc % 5 = 0 THEN Min(20, 5 + (sc \div 4)) ELSE speed

\* the particle update that removes only what has faded out
UpdateParticlesKeepsDead(ps) ==
    LET next == [i \in 1..Len(ps) |->
                    [life |-> ps[i].life - 1, opacity |-> Max(0, ps[i].opacity - 3)]]
        visible(p) == p.opacity > 0
    IN  SelectSeq(next, visible)

\* lines 241-253; opacity is in hundredths
UpdateParticles(ps) ==
    LET next == [i \in 1..Len(ps) |->
                    [life |-> ps[i].life - 1, opacity |-> Max(0, ps[i].opacity - 3)]]
        alive(p) == p.life > 0 /\ p.opacity > 0
    IN  SelectSeq(next, alive)

\* lines 283-289: the deferred game-over notification
NotifyEffect(gameOver, pending, rep) ==
    IF gameOver /\ pending # NoScore
    THEN [pendingGameOverScore |-> NoScore, reported |-> Append(rep, pending)]
    ELSE [pendingGameOverScore |-> pending, reported |-> rep]

FrameState ==
    [ kept |-> <<>>, score |-> score, currentScore |-> currentScore, particles |-> particles,
      isPaused |-> isPaused, showLevelComplete |-> showLevelComplete,
      isGameOver |-> isGameOver, pendingGameOverScore |-> pendingGameOverScore,
      timers |-> timers ]

GameFrame ==
    \E t \in timers :
      /\ t.kind = "frame"
      /\ IF t.paused
         THEN UNCHANGED <<deviceVars, playerPos, playerColor, gameVars>>
         ELSE \E lives \in [1..Len(obstacles) -> BurstLives] :
           LET moved == [i \in 1..Len(obstacles) |->
                            MoveObstacle(obstacles[i], t.level, obstacleSpeed)]
               a == FilterObstacles(FrameState, moved, 1, lives)
               e == RunEffects([timers |-> a.timers, spawnRef |-> spawnIntervalRef,
                                loopRef |-> gameLoopRef],
                               Deps(isGameOver, level, isPaused),
                               Deps(a.isGameOver, level, a.isPaused))
               n == NotifyEffect(a.isGameOver, a.pendingGameOverScore, reported)
           IN  /\ obstacles' = a.kept
               /\ score' = a.score
               /\ currentScore' = a.currentScore
               /\ obstacleSpeed' = RampSpeed(a.score, obstacleSpeed)
               /\ particles' = UpdateParticles(a.particles)
               /\ isPaused' = a.isPaused
               /\ showLevelComplete' = a.showLevelComplete
               /\ isGameOver' = a.isGameOver
               /\ pendingGameOverScore' = n.pendingGameOverScore
               /\ reported' = n.reported
               /\ timers' = e.timers
               /\ spawnIntervalRef' = e.spawnRef
               /\ gameLoopRef' = e.loopRef
               /\ UNCHANGED <<SCREEN_WIDTH, SCREEN_HEIGHT, probe, playerPos, playerColor,
                              level, obstacleSizeRef>>

\* the frame update of a game whose onGameOver prop only records the call
FrameTick == GameFrame /\ UNCHANGED appVars

-----------------------------------------------------------------------------
(* The spawn timers, lines 130-134 and 274-276 *)

GameSpawn(maxObstacles, maxScore, maxParticles) ==
    \E t \in timers :
      /\ t.kind \in {"spawn", "spawnGuarded"}
      /\ t.kind = "spawnGuarded" => ~t.paused
      /\ Len(obstacles) < maxObstacles
      /\ score < maxScore
      /\ Len(particles) + BurstSize * Len(obstacles) <= maxParticles
      /\ \E c \in SpawnColors, x \in SpawnXs(obstacleSizeRef), vx \in SpawnVxs,
            an \in SpawnAngles, rs \in SpawnRotateSpeeds :
           obstacles' = Append(obstacles,
                               generateObstacle(generateObstacleLevel, c, x, vx, an, rs,
                                                obstacleSizeRef))
      /\ UNCHANGED <<SCREEN_WIDTH, SCREEN_HEIGHT, probe, playerPos, playerColor, score, currentScore,
                     isGameOver, pendingGameOverScore, particles, gameLoopRef, obstacleSpeed,
                     level, spawnIntervalRef, obstacleSizeRef, isPaused, showLevelComplete,
                     timers, reported>>

SpawnTick == GameSpawn(MaxObstacles, MaxScore, MaxParticles) /\ UNCHANGED appVars

-----------------------------------------------------------------------------
(* The player's controls *)

\* panGesture.onUpdate, lines 61-69
\* the right bound taken at the screen edge instead of PLAYER_SIZE before it
DragAcceptedToEdge(newX) == newX >= 0 /\ newX <= SCREEN_WIDTH

DragAccepted(newX) == newX >= 0 /\ newX <= SCREEN_WIDTH - PLAYER_SIZE

DragTo(absoluteX) ==
    LET newX == absoluteX - (PLAYER_SIZE \div 2)
    IN  /\ playerPos' = IF DragAccepted(newX)
                        THEN [x |-> newX, y |-> playerPos.y]
                        ELSE playerPos
        /\ UNCHANGED <<SCREEN_WIDTH, SCREEN_HEIGHT, playerColor>>
        /\ UNCHANGED <<gameVars, appVars>>

Drag ==
    \E absoluteX \in DragXs : DragTo(absoluteX) /\ UNCHANGED probe

\* the color index advanced without wrapping at COLORS.length
NextColorNoWrap(c) == c + 1

\* changeColor, lines 292-294
NextColor(c) == (c + 1) % NumColors

ChangeColor ==
    /\ playerColor' = NextColor(playerColor)
    /\ UNCHANGED <<SCREEN_WIDTH, SCREEN_HEIGHT, probe, playerPos>>
    /\ UNCHANGED <<gameVars, appVars>>

\* Quit on the level-complete overlay, lines 356-360
Quit ==
    /\ showLevelComplete
    /\ showLevelComplete' = FALSE
    /\ reported' = Append(reported, score)
    /\ UNCHANGED <<SCREEN_WIDTH, SCREEN_HEIGHT, probe, playerPos, playerColor, score, currentScore,
                   isGameOver, pendingGameOverScore, obstacles, particles, gameLoopRef,
                   obstacleSpeed, level, spawnIntervalRef, obstacleSizeRef, isPaused, timers>>
    /\ UNCHANGED appVars

\* the next level keeps the speed
NextLevelSpeedKept(speed) == Min(20, speed)

\* lines 371-372
NextLevelSpeed(speed) == Min(20, speed + 1)
NextLevelSize(size) == Max(36, size - 4)

\* Next Level on the level-complete overlay, lines 366-375
NextLevel ==
    /\ showLevelComplete
    /\ LET e == RunEffects([timers |-> timers, spawnRef |-> spawnIntervalRef,
                            loopRef |-> gameLoopRef],
                           Deps(isGameOver, level, isPaused),
                           Deps(isGameOver, level + 1, FALSE))
       IN  /\ showLevelComplete' = FALSE
           /\ isPaused' = FALSE
           /\ level' = level + 1
           /\ obstacleSpeed' = NextLevelSpeed(obstacleSpeed)
           /\ obstacleSizeRef' = NextLevelSize(obstacleSizeRef)
           /\ obstacles' = <<>>
           /\ timers' = e.timers
           /\ spawnIntervalRef' = e.spawnRef
           /\ gameLoopRef' = e.loopRef
    /\ UNCHANGED <<SCREEN_WIDTH, SCREEN_HEIGHT, probe, playerPos, playerColor, score, currentScore,
                   isGameOver, pendingGameOverScore, particles, reported>>
    /\ UNCHANGED appVars

\* Play Again on the game-over overlay, lines 390-402; a new run starts
GamePlayAgain ==
    /\ isGameOver
    /\ LET e == RunEffects([timers |-> timers, spawnRef |-> spawnIntervalRef,
                            loopRef |-> gameLoopRef],
                           Deps(isGameOver, level, isPaused),
                           Deps(FALSE, 1, FALSE))
       IN  /\ obstacles' = <<>>
           /\ particles' = <<>>
           /\ score' = 0
           /\ currentScore' = 0
           /\ isGameOver' = FALSE
           /\ obstacleSpeed' = 5
           /\ obstacleSizeRef' = OBSTACLE_WIDTH
           /\ level' = 1
           /\ isPaused' = FALSE
           /\ showLevelComplete' = FALSE
           /\ playerPos' = InitialPlayerPos
           /\ timers' = e.timers
           /\ spawnIntervalRef' = e.spawnRef
           /\ gameLoopRef' = e.loopRef
           /\ reported' = <<>>
    /\ UNCHANGED <<SCREEN_WIDTH, SCREEN_HEIGHT, probe, playerColor, pendingGameOverScore>>

\* Play Again calls nothing of the App
PlayAgain == GamePlayAgain /\ UNCHANGED appVars

-----------------------------------------------------------------------------
(* The game just mounted, lines 14-34, with the effects of the first render *)

MountEffects ==
    SpawnerEffect(GameLoopEffect([timers |-> {}, spawnRef |-> Null, loopRef |-> Null],
                                 FALSE, 1, FALSE),
                  FALSE, 1, FALSE)

GameMounted(width, height) ==
    /\ SCREEN_WIDTH = width
    /\ SCREEN_HEIGHT = height
    /\ playerPos = InitialPlayerPos
    /\ playerColor = 0
    /\ score = 0
    /\ currentScore = 0
    /\ isGameOver = FALSE
    /\ pendingGameOverScore = NoScore
    /\ obstacles = <<>>
    /\ particles = <<>>
    /\ obstacleSpeed = 5
    /\ level = 1
    /\ obstacleSizeRef = OBSTACLE_WIDTH
    /\ isPaused = FALSE
    /\ showLevelComplete = FALSE
    /\ timers = MountEffects.timers
    /\ spawnIntervalRef = MountEffects.spawnRef
    /\ gameLoopRef = MountEffects.loopRef
    /\ reported = <<>>

GameInit == GameMounted(2 * HalfWidth, WindowHeight)

\* the Game on its own: what its host holds stays as it is
HostIdle ==
    /\ gameStarted = TRUE
    /\ highScore = 0
    /\ backgroundMusic = "null"
    /\ musicTask = "idle"
    /\ musicPlaying = FALSE
    /\ storedHighScore = NoItem
    /\ highScoreRead = "done"
    /\ pendingWrites = <<>>
    /\ pointSound = "loading"
    /\ pointReplays = 0

Init ==
    /\ GameInit
    /\ HostIdle
    /\ probe = [kind |-> "none"]

Next ==
    \/ FrameTick
    \/ SpawnTick
    \/ Drag
    \/ ChangeColor
    \/ Quit
    \/ NextLevel
    \/ PlayAgain

Spec == Init /\ [][Next]_vars

-----------------------------------------------------------------------------
(* The collision test and the drag handler on their own *)

\* the absoluteX values of the drag events examined
ProbeDragXs == {x \in 0..SCREEN_WIDTH : x % 5 = 0}

\* offsets of an obstacle's left (top) edge from the player's, around the two places
\* where the rectangles start and stop touching, for an obstacle of the given size
ProbeOffsets(size) == {-size - 1, -size, -size + 1, 0, PLAYER_SIZE - 1, PLAYER_SIZE, PLAYER_SIZE + 1}
ProbeSizes == {36, OBSTACLE_WIDTH}
ProbePlayerXs == {0, InitialPlayerPos.x, SCREEN_WIDTH - PLAYER_SIZE}

InitCollision ==
    /\ GameInit
    /\ HostIdle
    /\ \E size \in ProbeSizes :
         \E dx \in ProbeOffsets(size), dy \in ProbeOffsets(size) :
         \E px \in ProbePlayerXs :
           probe = [ kind |-> "collision",
                     pos |-> [x |-> px, y |-> playerPos.y],
                     obs |-> [x |-> px + dx, y |-> playerPos.y + dy,
                              width |-> size, height |-> size],
                     done |-> FALSE, collision |-> FALSE ]

ProbeCollision ==
    /\ probe.kind = "collision"
    /\ ~probe.done
    /\ probe' = [probe EXCEPT !.done = TRUE, !.collision = Collision(probe.pos, probe.obs)]
    /\ UNCHANGED <<SCREEN_WIDTH, SCREEN_HEIGHT, playerPos, playerColor>>
    /\ UNCHANGED <<gameVars, appVars>>

SpecCollision == InitCollision /\ [][ProbeCollision]_vars

ProbeDrag ==
    \E absoluteX \in ProbeDragXs :
      /\ DragTo(absoluteX)
      /\ probe' = [kind |-> "drag", absoluteX |-> absoluteX, from |-> playerPos]

SpecDrag == Init /\ [][ProbeDrag]_vars

-----------------------------------------------------------------------------
(* The obstacle speed on its own, in the levels revision and in the original      *)
(* revision (lines 522-785): the score a frame's matches bring, the ramp, Next     *)
(* Level and Play Again, with Next Level allowed at any score.                    *)

\* original revision, lines 648-651
RampSpeedOriginal(sc, speed) ==
    IF sc > 0 /\ sc % 5 = 0 THEN Min(15, 5 + (sc \div 5)) ELSE speed

\* the matches one frame may bring
ProbeMatches == 0..MaxObstacles

InitSpeed ==
    /\ GameInit
    /\ HostIdle
    /\ \E rev \in {"levels", "original"} :
         probe = [kind |-> "speed", revision |-> rev, score |-> score, speed |-> obstacleSpeed]

\* a frame update: lines 181 and 235-238; in the original revision lines 625 and
\* 648-651, where the ramp stands outside the updater and may read the score from
\* before or after it
ProbeSpeedFrame ==
    /\ probe.kind = "speed"
    /\ \E k \in ProbeMatches :
         /\ probe.score + k <= SpeedMaxScore
         /\ IF probe.revision = "levels"
            THEN probe' = [probe EXCEPT !.score = probe.score + k,
                                        !.speed = RampSpeed(probe.score + k, probe.speed)]
            ELSE \E sc \in {probe.score, probe.score + k} :
                   probe' = [probe EXCEPT !.score = probe.score + k,
                                          !.speed = RampSpeedOriginal(sc, probe.speed)]
    /\ UNCHANGED <<SCREEN_WIDTH, SCREEN_HEIGHT, playerPos, playerColor>>
    /\ UNCHANGED <<gameVars, appVars>>

\* Next Level, line 371
ProbeSpeedNextLevel ==
    /\ probe.kind = "speed"
    /\ probe.revision = "levels"
    /\ probe' = [probe EXCEPT !.speed = NextLevelSpeed(probe.speed)]
    /\ UNCHANGED <<SCREEN_WIDTH, SCREEN_HEIGHT, playerPos, playerColor>>
    /\ UNCHANGED <<gameVars, appVars>>

\* Play Again, lines 393 and 397; in the original revision lines 702 and 705
ProbeSpeedPlayAgain ==
    /\ probe.kind = "speed"
    /\ probe' = [probe EXCEPT !.score = 0, !.speed = 5]
    /\ UNCHANGED <<SCREEN_WIDTH, SCREEN_HEIGHT, playerPos, playerColor>>
    /\ UNCHANGED <<gameVars, appVars>>

NextSpeed ==
    \/ ProbeSpeedFrame
    \/ ProbeSpeedNextLevel
    \/ ProbeSpeedPlayAgain

SpecSpeed == InitSpeed /\ [][NextSpeed]_vars

-----------------------------------------------------------------------------
(* The movement of one obstacle on its own, lines 143-163: an obstacle as         *)
(* generateObstacle makes it at some level, moved frame after frame while it is   *)
(* on the screen.                                                                 *)

\* the levels, the x values and the horizontal velocities of the obstacles examined
ProbeLevels == {1, 3}
ProbeSpawnXs(size) == {0, 1, (SCREEN_WIDTH - size) \div 2, SCREEN_WIDTH - size - 1}
ProbeVxs == {-2, -1, 1, 2}
\* the speeds examined, the least and the greatest of lines 24 and 237
ProbeSpeeds == {5, 20}

InitMove ==
    /\ GameInit
    /\ HostIdle
    /\ \E lvl \in ProbeLevels, size \in ProbeSizes, speed \in ProbeSpeeds :
       \E x \in ProbeSpawnXs(size), vx \in ProbeVxs :
         LET obs == generateObstacle(lvl, 0, x, vx, 0, 0, size)
         IN  probe = [kind |-> "move", level |-> lvl, speed |-> speed,
                      from |-> obs, obs |-> obs]

ProbeMove ==
    /\ probe.kind = "move"
    /\ OnScreen(probe.obs)
    /\ probe' = [probe EXCEPT !.from = probe.obs,
                              !.obs = MoveObstacle(probe.obs, probe.level, probe.speed)]
    /\ UNCHANGED <<SCREEN_WIDTH, SCREEN_HEIGHT, playerPos, playerColor>>
    /\ UNCHANGED <<gameVars, appVars>>

SpecMove == InitMove /\ [][ProbeMove]_vars

-----------------------------------------------------------------------------
(* The Game on a device wide enough for an obstacle to fall past a player who     *)
(* has moved to the left edge, with one obstacle at a time.  The frame timer      *)
(* fires every 16 ms for as long as it is set (line 139), hence weak fairness of  *)
(* the frame update.                                                              *)

InitFall ==
    /\ GameMounted(2 * FallHalfWidth, WindowHeight)
    /\ HostIdle
    /\ probe = [kind |-> "none"]

FallSpawnTick == GameSpawn(1, FallMaxScore, 0) /\ UNCHANGED appVars

NextFall ==
    \/ FrameTick
    \/ FallSpawnTick
    \/ Drag
    \/ PlayAgain

SpecFall == InitFall /\ [][NextFall]_vars /\ WF_vars(FrameTick)

-----------------------------------------------------------------------------
(* The fall of one obstacle towards a player who stays where he is, lines         *)
(* 143-178: an obstacle of some size the levels give, spawned over the player,    *)
(* moved frame after frame at any speed from 5 to 20 until it collides or leaves  *)
(* the screen.                                                                    *)

\* the sizes of lines 31 and 372, and the speeds of lines 24, 237 and 371
FallSizes == {size \in 36..OBSTACLE_WIDTH : size % 4 = 0}
FallSpeeds == 5..20
\* x values at which an obstacle of the given size overlaps the player's range
FallXs(size) == {playerPos.x - size, playerPos.x, playerPos.x + PLAYER_SIZE}

InitTunnel ==
    /\ GameInit
    /\ HostIdle
    /\ \E size \in FallSizes :
       \E x \in FallXs(size) :
         LET obs == generateObstacle(1, 0, x, 0, 0, 0, size)
         IN  probe = [kind |-> "fall", speed |-> obstacleSpeed, from |-> obs, obs |-> obs,
                      hit |-> FALSE]

ProbeFall ==
    /\ probe.kind = "fall"
    /\ ~probe.hit
    /\ OnScreen(probe.obs)
    /\ \E speed \in FallSpeeds :
         LET moved == MoveObstacle(probe.obs, 1, speed)
         IN  probe' = [probe EXCEPT !.speed = speed, !.from = probe.obs, !.obs = moved,
                                    !.hit = Collision(playerPos, moved)]
    /\ UNCHANGED <<SCREEN_WIDTH, SCREEN_HEIGHT, playerPos, playerColor>>
    /\ UNCHANGED <<gameVars, appVars>>

SpecTunnel == InitTunnel /\ [][ProbeFall]_vars

-----------------------------------------------------------------------------
(* The App component, src/unnamed/part_000 lines 8-120, hosting the Game.         *)
(* An asynchronous call is pending until an action settles it, resolved or        *)
(* rejected.  The store settles its calls in the order they were made.  The       *)
(* music effect runs maybeStart once with gameStarted true, and nothing sets      *)
(* gameStarted back, so its cancelled flag stays false.  The sound is asked to    *)
(* play in the same task that stores it in backgroundMusic, so that request       *)
(* precedes any stop or unload a later handleGameOver makes.                      *)

RECURSIVE JsonStringify(_)
\* JSON.stringify of a non-negative integer, line 80: its decimal digits
JsonStringify(n) ==
    IF n < 10 THEN <<n>> ELSE Append(JsonStringify(n \div 10), n % 10)

RECURSIVE JsonParse(_)
\* JSON.parse of a string of decimal digits, line 57
JsonParse(raw) ==
    IF Len(raw) = 1 THEN raw[1]
    ELSE 10 * JsonParse(SubSeq(raw, 1, Len(raw) - 1)) + raw[Len(raw)]

\* the high score after a read that rejected resets it
LoadedHighScoreOrZero(ok, raw, hs) ==
    IF ok /\ raw # NoItem THEN JsonParse(raw) ELSE 0

\* lines 54-64: the high score after getItem settled with raw, or rejected
LoadedHighScore(ok, raw, hs) ==
    IF ok /\ raw # NoItem THEN JsonParse(raw) ELSE hs

\* a score equal to the high score counts as beating it
HighScoreReached(s, hs) == s >= hs

\* line 75
HighScoreBeaten(s, hs) == s > hs

\* handleGameOver, lines 68-86
HandleGameOver(s) ==
    /\ backgroundMusic' = "null"
    /\ musicPlaying' = IF backgroundMusic # "null" THEN FALSE ELSE musicPlaying
    /\ highScore' = IF HighScoreBeaten(s, highScore) THEN s ELSE highScore
    /\ pendingWrites' = IF HighScoreBeaten(s, highScore)
                        THEN Append(pendingWrites, JsonStringify(s))
                        ELSE pendingWrites

\* what a step of the Game makes of the App: onGameOver is handleGameOver (line 117),
\* and a match replays the point sound if it is loaded (Game.js line 186)
AppReacts ==
    /\ IF Len(reported') > Len(reported)
       THEN HandleGameOver(reported'[Len(reported')])
       ELSE UNCHANGED <<backgroundMusic, musicPlaying, highScore, pendingWrites>>
    /\ pointReplays' = IF pointSound = "loaded" /\ score' > score
                       THEN pointReplays + (score' - score)
                       ELSE pointReplays
    /\ UNCHANGED <<gameStarted, musicTask, storedHighScore, highScoreRead, pointSound>>

\* Start Game, line 106; the Game mounts and the music effect runs maybeStart
StartGame ==
    /\ ~gameStarted
    /\ gameStarted' = TRUE
    /\ musicTask' = "audioMode"
    /\ UNCHANGED <<deviceVars, playerPos, playerColor, gameVars>>
    /\ UNCHANGED <<highScore, backgroundMusic, musicPlaying, storedHighScore, highScoreRead,
                   pendingWrites, pointSound, pointReplays>>

\* Audio.setAudioModeAsync settles, lines 28-29 and 43-45
MusicAudioModeSettles(ok) ==
    /\ musicTask = "audioMode"
    /\ musicTask' = IF ok THEN "create" ELSE "failed"
    /\ UNCHANGED <<deviceVars, playerPos, playerColor, gameVars>>
    /\ UNCHANGED <<gameStarted, highScore, backgroundMusic, musicPlaying, storedHighScore,
                   highScoreRead, pendingWrites, pointSound, pointReplays>>

\* Audio.Sound.createAsync settles and, if it resolved, playAsync is called, lines 36-45
MusicCreateSettles(ok, playOk) ==
    /\ musicTask = "create"
    /\ musicTask' = IF ok /\ playOk THEN "done" ELSE "failed"
    /\ backgroundMusic' = IF ok THEN "sound" ELSE backgroundMusic
    /\ musicPlaying' = (ok /\ playOk)
    /\ UNCHANGED <<deviceVars, playerPos, playerColor, gameVars>>
    /\ UNCHANGED <<gameStarted, highScore, storedHighScore, highScoreRead, pendingWrites,
                   pointSound, pointReplays>>

\* AsyncStorage.getItem settles, lines 52-66
HighScoreReadSettles(ok) ==
    /\ highScoreRead = "pending"
    /\ highScoreRead' = "done"
    /\ highScore' = LoadedHighScore(ok, storedHighScore, highScore)
    /\ UNCHANGED <<deviceVars, playerPos, playerColor, gameVars>>
    /\ UNCHANGED <<gameStarted, backgroundMusic, musicTask, musicPlaying, storedHighScore,
                   pendingWrites, pointSound, pointReplays>>

\* AsyncStorage.setItem settles, lines 78-84
PersistSettles(ok) ==
    /\ highScoreRead = "done"
    /\ pendingWrites # <<>>
    /\ pendingWrites' = Tail(pendingWrites)
    /\ storedHighScore' = IF ok THEN Head(pendingWrites) ELSE storedHighScore
    /\ UNCHANGED <<deviceVars, playerPos, playerColor, gameVars>>
    /\ UNCHANGED <<gameStarted, highScore, backgroundMusic, musicTask, musicPlaying,
                   highScoreRead, pointSound, pointReplays>>

\* the point sound's createAsync settles, Game.js lines 36-49
PointSoundSettles(ok) ==
    /\ gameStarted
    /\ pointSound = "loading"
    /\ pointSound' = IF ok THEN "loaded" ELSE "unavailable"
    /\ UNCHANGED <<deviceVars, playerPos, playerColor, gameVars>>
    /\ UNCHANGED <<gameStarted, highScore, backgroundMusic, musicTask, musicPlaying,
                   storedHighScore, highScoreRead, pendingWrites, pointReplays>>

\* a replayAsync of the point sound settles, Game.js line 186; nothing awaits it
PointReplaySettles(ok) ==
    /\ pointReplays > 0
    /\ pointReplays' = pointReplays - 1
    /\ UNCHANGED <<deviceVars, playerPos, playerColor, gameVars>>
    /\ UNCHANGED <<gameStarted, highScore, backgroundMusic, musicTask, musicPlaying,
                   storedHighScore, highScoreRead, pendingWrites, pointSound>>

AppFrameTick == gameStarted /\ GameFrame /\ AppReacts
AppSpawnTick ==
    gameStarted /\ pointReplays < MaxReplays /\ GameSpawn(1, AppMaxScore, 0) /\ AppReacts
AppPlayAgain == gameStarted /\ GamePlayAgain /\ AppReacts

\* the App just mounted, lines 9-11, over what an earlier session left in the store
AppInit ==
    /\ gameStarted = FALSE
    /\ highScore = 0
    /\ backgroundMusic = "null"
    /\ musicTask = "idle"
    /\ musicPlaying = FALSE
    /\ storedHighScore \in {NoItem} \cup {JsonStringify(k) : k \in StoredScores}
    /\ highScoreRead = "pending"
    /\ pendingWrites = <<>>
    /\ pointSound = "loading"
    /\ pointReplays = 0

InitApp ==
    /\ GameInit
    /\ AppInit
    /\ probe = [kind |-> "none"]

NextApp ==
    \/ StartGame
    \/ \E ok \in BOOLEAN : MusicAudioModeSettles(ok)
    \/ \E ok \in BOOLEAN, playOk \in BOOLEAN : MusicCreateSettles(ok, playOk)
    \/ \E ok \in BOOLEAN : HighScoreReadSettles(ok)
    \/ \E ok \in BOOLEAN : PersistSettles(ok)
    \/ \E ok \in BOOLEAN : PointSoundSettles(ok)
    \/ \E ok \in BOOLEAN : PointReplaySettles(ok)
    \/ AppFrameTick
    \/ AppSpawnTick
    \/ AppPlayAgain

SpecApp == InitApp /\ [][NextApp]_vars

-----------------------------------------------------------------------------
(* Properties *)

\* the obstacles as the frame update about to run moves them
FrameMoved == [i \in 1..Len(obstacles) |-> MoveObstacle(obstacles[i], level, obstacleSpeed)]
\* the moved obstacles that touch the player, by color
MatchingNow ==
    {i \in 1..Len(obstacles) :
        Collision(playerPos, FrameMoved[i]) /\ FrameMoved[i].colorIndex = playerColor}
MismatchingNow ==
    {i \in 1..Len(obstacles) :
        Collision(playerPos, FrameMoved[i]) /\ FrameMoved[i].colorIndex # playerColor}

\* C1: an unpaused frame update adds exactly 1 to the score for every obstacle that
\* collides with the player in the player's color, removes each of them from the
\* list, and does not end the game unless some obstacle of another color collides.
C1_MatchScoresAndRemoves ==
    [][ (FrameTick /\ ~isPaused) =>
          /\ score' = score + Cardinality(MatchingNow)
          /\ \A i \in MatchingNow :
               \A j \in 1..Len(obstacles') : obstacles'[j] # FrameMoved[i]
          /\ (MismatchingNow = {} /\ ~isGameOver) => ~isGameOver' ]_vars

\* two obstacles matched in the frame update that just ran
C1_Witness ==
    /\ score >= 2
    /\ ~isGameOver
    /\ Len(particles) = 2 * BurstSize
    /\ \A i \in 1..Len(particles) : particles[i].opacity = 97

\* C2: a frame update in which an obstacle of another color collides ends the run:
\* isGameOver is set, no timer is left, only the matching obstacles score; and while
\* the game stays over no timer is active and the obstacle list is left alone or
\* emptied, never moved or grown.
C2_MismatchEndsRun ==
    /\ [](isGameOver => timers = {})
    /\ [][ (FrameTick /\ ~isPaused /\ MismatchingNow # {}) =>
             /\ isGameOver'
             /\ timers' = {}
             /\ score' = score + Cardinality(MatchingNow) ]_vars
    /\ [][ (isGameOver /\ isGameOver') => obstacles' \in {obstacles, <<>>} ]_vars

\* the game is over with an obstacle still on the screen
C2_Witness ==
    /\ isGameOver
    /\ obstacles # <<>>
    /\ reported # <<>>

\* C3: an obstacle spawned at level 2 or higher rotates, one spawned at level 3 or
\* higher moves sideways, one spawned at level 1 does neither.
C3_SpawnFollowsLevel ==
    [][ Len(obstacles') = Len(obstacles) + 1 =>
          LET obs == obstacles'[Len(obstacles')]
          IN  /\ level >= 2 => obs.rotateSpeed # 0
              /\ level >= 3 => obs.vx # 0
              /\ level = 1 => (obs.vx = 0 /\ obs.rotateSpeed = 0) ]_vars

\* the score passes a positive multiple of levelThreshold in this step
ReachesThreshold == \E m \in (score + 1)..score' : m % levelThreshold = 0

\* C4: a step in which matches bring the score to a positive multiple of 10 leaves the
\* game paused with the level-complete overlay shown, and the overlay appears in no
\* other step.
C4_LevelCompleteAtThreshold ==
    [][ /\ (score' > score /\ ReachesThreshold) => (isPaused' /\ showLevelComplete')
        /\ (showLevelComplete' /\ ~showLevelComplete) => (score' > score /\ ReachesThreshold)
      ]_vars

\* the tenth match has paused the game
C4_Witness ==
    /\ score = levelThreshold
    /\ isPaused
    /\ showLevelComplete
    /\ ~isGameOver

\* C5: a step that leaves the game paused changes neither the obstacles nor the
\* score, the particles or the obstacle speed.
C5_PausedIsFrozen ==
    [][ (isPaused /\ isPaused') =>
          UNCHANGED <<obstacles, score, particles, obstacleSpeed>> ]_vars

\* the closed player square and the closed obstacle rectangle share a point
RectanglesMeet(pos, obs) ==
    \E u \in pos.x..(pos.x + PLAYER_SIZE), v \in pos.y..(pos.y + PLAYER_SIZE) :
        /\ obs.x <= u /\ u <= obs.x + obs.width
        /\ obs.y <= v /\ v <= obs.y + obs.height

\* C6: the collision test answers true exactly when the closed player square and the
\* closed obstacle rectangle share a point.
C6_CollisionIsClosedOverlap ==
    (probe.kind = "collision" /\ probe.done) =>
        (probe.collision <=> RectanglesMeet(probe.pos, probe.obs))

\* rectangles touching at one corner only were found to collide
C6_Witness ==
    /\ probe.kind = "collision"
    /\ probe.done
    /\ probe.collision
    /\ probe.obs.x = probe.pos.x + PLAYER_SIZE
    /\ probe.obs.y = probe.pos.y + PLAYER_SIZE

\* C7: after any drags the player's x is in [0, SCREEN_WIDTH - PLAYER_SIZE] and its y
\* is the initial one; the last drag moved the player to its target when the target is
\* in that range and left the position as it was otherwise.
C7_DragKeepsPlayerOnScreen ==
    /\ 0 <= playerPos.x /\ playerPos.x <= SCREEN_WIDTH - PLAYER_SIZE
    /\ playerPos.y = SCREEN_HEIGHT - 100
    /\ probe.kind = "drag" =>
         LET target == probe.absoluteX - (PLAYER_SIZE \div 2)
         IN  IF 0 <= target /\ target <= SCREEN_WIDTH - PLAYER_SIZE
             THEN playerPos = [x |-> target, y |-> probe.from.y]
             ELSE playerPos = probe.from

\* a drag beyond the right edge was ignored after an earlier drag had moved the player
C7_Witness ==
    /\ probe.kind = "drag"
    /\ probe.absoluteX - (PLAYER_SIZE \div 2) > SCREEN_WIDTH - PLAYER_SIZE
    /\ playerPos = probe.from
    /\ playerPos.x # InitialPlayerPos.x

\* C8: the color index is always in 0..3, four taps bring it back, a tap advances it
\* by 1 modulo 4, and a step that changes it changes nothing else.
C8_ColorCycles ==
    /\ [](/\ playerColor \in 0..3
          /\ NextColor(NextColor(NextColor(NextColor(playerColor)))) = playerColor)
    /\ [][ChangeColor => playerColor' = (playerColor + 1) % 4]_vars
    /\ [][ playerColor' # playerColor =>
             /\ playerColor' = (playerColor + 1) % 4
             /\ UNCHANGED <<playerPos, gameVars>> ]_vars

\* the index has wrapped around and points were scored
C8_Witness ==
    /\ playerColor = 3
    /\ score >= 2
    /\ level = 2

\* C9: obstacleSpeed decreases only when Play Again starts a new run.
C9_SpeedNeverDecreases ==
    [][ obstacleSpeed' < obstacleSpeed => (isGameOver /\ ~isGameOver' /\ score' = 0) ]_vars

\* C10: Quit reports the current score and leaves the game over.
C10_QuitEndsRun ==
    [][ Quit => (reported' = Append(reported, score) /\ isGameOver') ]_vars

\* C11: onGameOver is called at most once in a run.
C11_NotifiedOncePerRun == Len(reported) <= 1

\* the game is being played: neither the start screen nor the game-over screen shows
InGameplay == gameStarted /\ ~isGameOver

\* C12: the background music plays only in gameplay, and plays in gameplay once its
\* load and its start have succeeded.
C12_MusicOnlyInGameplay ==
    /\ musicPlaying => InGameplay
    /\ InGameplay /\ musicTask = "done" => musicPlaying

\* the score handleGameOver is called with in this step
Notified == reported'[Len(reported')]

\* C13: handleGameOver(s) leaves the high score at the larger of s and what it was, and
\* asks the store to write s exactly when s is larger than the high score was.
C13_HighScoreIsMax ==
    [][ Len(reported') > Len(reported) =>
          /\ highScore' = Max(highScore, Notified)
          /\ Notified > highScore =>
                /\ Len(pendingWrites') = Len(pendingWrites) + 1
                /\ SubSeq(pendingWrites', 1, Len(pendingWrites)) = pendingWrites
                /\ JsonParse(pendingWrites'[Len(pendingWrites')]) = Notified
          /\ Notified <= highScore => pendingWrites' = pendingWrites ]_vars

\* a run ended with a new high score of 2, which the store now holds
C13_Witness ==
    /\ reported = <<2>>
    /\ highScore = 2
    /\ highScoreRead = "done"
    /\ pendingWrites = <<>>
    /\ storedHighScore # NoItem
    /\ JsonParse(storedHighScore) = 2

\* a call of the sound library rejects
SoundFails ==
    \/ MusicAudioModeSettles(FALSE)
    \/ \E playOk \in BOOLEAN : MusicCreateSettles(FALSE, playOk)
    \/ MusicCreateSettles(TRUE, FALSE)
    \/ PointSoundSettles(FALSE)
    \/ PointReplaySettles(FALSE)

\* C14: a read of the store that fails leaves the high score as it was; a write that
\* fails leaves the high score, already updated, and the stored value as they were; a
\* sound that fails to load or to play leaves the game as it was.
C14_FailuresAreSwallowed ==
    [][ /\ HighScoreReadSettles(FALSE) => highScore' = highScore
        /\ PersistSettles(FALSE) => highScore' = highScore /\ storedHighScore' = storedHighScore
        /\ SoundFails => UNCHANGED <<playerPos, playerColor, gameVars, highScore>> ]_vars

\* a new high score of 2 whose write failed, after the music and the point sound failed
C14_Witness ==
    /\ highScore = 2
    /\ highScoreRead = "done"
    /\ pendingWrites = <<>>
    /\ storedHighScore = NoItem
    /\ musicTask = "failed"
    /\ pointSound = "unavailable"

\* C15: Next Level hides the overlay, unpauses, raises the level by one, empties the
\* obstacle list, sets the speed to min(20, speed + 1) and the size to max(36, size - 4)
\* and keeps the score; the level changes otherwise only when Play Again resets it to 1.
C15_NextLevelAdvances ==
    [][ /\ NextLevel =>
              /\ ~showLevelComplete'
              /\ ~isPaused'
              /\ level' = level + 1
              /\ obstacles' = <<>>
              /\ obstacleSpeed' = Min(20, obstacleSpeed + 1)
              /\ obstacleSizeRef' = Max(36, obstacleSizeRef - 4)
              /\ score' = score
        /\ level' # level => NextLevel \/ (PlayAgain /\ level' = 1) ]_vars

\* the second level just started from a speed of 7
C15_Witness ==
    /\ level = 2
    /\ score = 10
    /\ obstacleSpeed = 8
    /\ obstacleSizeRef = 56
    /\ obstacles = <<>>
    /\ ~isPaused
    /\ ~showLevelComplete

\* C16: while the game is neither over nor paused, the level is 1 + floor(score / 10).
C16_LevelFollowsScore ==
    ~isGameOver /\ ~isPaused => level = 1 + (score \div levelThreshold)

\* the second level being played, with a score past the threshold
C16_Witness ==
    /\ ~isGameOver
    /\ ~isPaused
    /\ level = 2
    /\ score = 11
    /\ obstacles # <<>>

\* C17: the obstacle speed is an integer from 5 to 20 in the levels revision, from 5 to
\* 15 in the original revision, whatever frames, Next Level and Play Again bring.
C17_SpeedInRange ==
    probe.kind = "speed" =>
        /\ probe.speed \in Int
        /\ 5 <= probe.speed
        /\ probe.speed <= (IF probe.revision = "levels" THEN 20 ELSE 15)

\* the speed of the levels revision stands at its cap at a score of 60
C17_Witness ==
    /\ probe.kind = "speed"
    /\ probe.revision = "levels"
    /\ probe.score = 60
    /\ probe.speed = 20

\* the obstacle's move would reach or cross the left or the right edge
CrossesEdge(obs) == obs.x + obs.vx <= 0 \/ obs.x + obs.vx + obs.width >= SCREEN_WIDTH

\* C18: a frame update leaves an obstacle with 0 <= x <= SCREEN_WIDTH - width; at level 3
\* or more an obstacle with a non-zero vx whose move would reach or cross an edge has its
\* vx negated and its x clamped into that range; with vx = 0 its x does not change.
C18_ObstacleStaysInside ==
    [][ probe'.kind = "move" =>
          LET old == probe.obs
              new == probe'.obs
          IN  /\ 0 <= new.x
              /\ new.x <= SCREEN_WIDTH - new.width
              /\ old.vx = 0 => new.x = old.x /\ new.vx = 0
              /\ probe.level >= 3 /\ old.vx # 0 /\ CrossesEdge(old) =>
                    /\ new.vx = -old.vx
                    /\ new.x = Max(0, Min(SCREEN_WIDTH - old.width, old.x + old.vx)) ]_vars

\* an obstacle of level 3 moving right by 2 has just been turned round at the right edge
C18_Witness ==
    /\ probe.kind = "move"
    /\ probe.level = 3
    /\ probe.from.vx = 2
    /\ probe.from.x = SCREEN_WIDTH - probe.from.width - 1
    /\ probe.obs.vx = -2
    /\ probe.obs.x = SCREEN_WIDTH - probe.obs.width

\* the frame timer that is set runs its update, the game not being paused
UnpausedFrame == FrameTick /\ \A t \in timers : t.kind = "frame" => ~t.paused

\* the moved obstacles that the frame update about to run keeps
FrameKept ==
    LET stays(obs) == ~Collision(playerPos, obs) /\ obs.y < SCREEN_HEIGHT
    IN  SelectSeq(FrameMoved, stays)

\* C19: an unpaused frame update raises every obstacle's y by the obstacle speed and
\* keeps exactly the moved obstacles that do not collide and have y < SCREEN_HEIGHT; and
\* an obstacle on the list is removed in the end, unless the game is paused or ends.
C19_ObstaclesFallAndLeave ==
    /\ [][ UnpausedFrame =>
             /\ \A i \in 1..Len(obstacles) :
                    FrameMoved[i].y = obstacles[i].y + obstacleSpeed
             /\ obstacles' = FrameKept ]_vars
    /\ (obstacles # <<>>) ~> (obstacles = <<>> \/ isPaused \/ isGameOver)

\* an obstacle that has fallen past the player stands where the next frame removes it
C19_Witness ==
    /\ ~isGameOver
    /\ ~isPaused
    /\ Len(obstacles) = 1
    /\ obstacles[1].y > playerPos.y + PLAYER_SIZE
    /\ obstacles[1].y < SCREEN_HEIGHT
    /\ obstacles[1].y + obstacleSpeed >= SCREEN_HEIGHT

\* C20: an obstacle that falls straight over a player who does not move is never
\* entirely below the player without a frame having found the collision.
C20_NoTunnelling ==
    probe.kind = "fall" /\ probe.obs.y > playerPos.y + PLAYER_SIZE => probe.hit

\* the smallest obstacle, entirely above the player, is caught after a step of 20
C20_Witness ==
    /\ probe.kind = "fall"
    /\ probe.obs.height = 36
    /\ probe.speed = 20
    /\ probe.from.y + probe.from.height < playerPos.y
    /\ probe.hit

\* C21: the level-complete overlay and the game-over overlay are never shown together.
C21_OverlaysExclusive == ~(showLevelComplete /\ isGameOver)

\* C22: once a mismatch has ended the run and onGameOver has been called, the score it
\* was called with is the score counter, which is the final score shown.
C22_NotifiedScoreIsFinal ==
    isGameOver /\ reported # <<>> => reported[1] = score /\ reported[1] = currentScore

\* C23: Play Again leaves the game as it is when freshly mounted.
C23_PlayAgainRestoresMount ==
    [][ PlayAgain =>
          /\ score' = 0
          /\ currentScore' = 0
          /\ level' = 1
          /\ obstacleSpeed' = 5
          /\ obstacleSizeRef' = OBSTACLE_WIDTH
          /\ obstacles' = <<>>
          /\ particles' = <<>>
          /\ ~isGameOver'
          /\ ~isPaused'
          /\ ~showLevelComplete'
          /\ playerPos' = InitialPlayerPos
          /\ playerColor' = 0 ]_vars

\* the timers that can change the obstacle list
SpawnTimers == {t \in timers : t.kind \in {"spawn", "spawnGuarded"}}
FrameTimers == {t \in timers : t.kind = "frame"}

\* C24: at most one spawn timer and at most one frame timer are active, and none of
\* them while the game is over.
C24_OneTimerOfEachKind ==
    /\ Cardinality(SpawnTimers) <= 1
    /\ Cardinality(FrameTimers) <= 1
    /\ isGameOver => SpawnTimers = {} /\ FrameTimers = {}

\* the game runs on its second level after both effects were set up anew
C24_Witness ==
    /\ level = 2
    /\ ~isPaused
    /\ ~isGameOver
    /\ Cardinality(SpawnTimers) = 1
    /\ Cardinality(FrameTimers) = 1

\* the particles one frame older
Aged == [i \in 1..Len(particles) |->
            [particles[i] EXCEPT !.life = @ - 1, !.opacity = Max(0, @ - 3)]]

\* the particles of before this step that the step keeps, one frame older
Survivors ==
    LET stays(p) == p.life > 0 /\ p.opacity > 0
    IN  SelectSeq(Aged, stays)

\* C25: particles come only from a match, 14 for each, with a life from 30 to 49; an
\* unpaused frame update takes 1 off every particle's life and removes the particles
\* whose life is no longer positive, so that a particle lives 49 such updates at most.
C25_ParticlesComeAndGo ==
    /\ [][ UnpausedFrame =>
             LET matches == score' - score
                 kept == Len(particles') - BurstSize * matches
             IN  /\ kept = Len(Survivors)
                 /\ SubSeq(particles', 1, kept) = Survivors
                 /\ \A i \in (kept + 1)..Len(particles') :
                        particles'[i].life + 1 \in 30..49 ]_vars
    /\ [][ ~UnpausedFrame => particles' = particles \/ particles' = <<>> ]_vars
    /\ [](\A i \in 1..Len(particles) : particles[i].life \in 1..48)

\* the 14 particles of one match, the first of them in the last frame of its life
C25_Witness ==
    /\ Len(particles) = BurstSize
    /\ particles[1].life = 1
    /\ ~isPaused

====
